---- MODULE Spec2Model ----
(***************************************************************************)
(* Model of src/processor/ledger/beancount_to_jsonl.py: the conversion of  *)
(* Beancount ledger files into (compressed) JSONL.                         *)
(*                                                                         *)
(* A text is a sequence of one-character strings.  A position p of a text  *)
(* is a number in 0..Len(text), as in Python: the character after          *)
(* position p is text[p+1].                                                *)
(***************************************************************************)
EXTENDS Integers, Sequences, FiniteSets, TLC

NL  == "\n"
CR  == "\r"
TAB == "\t"
SP  == " "
QUOTE == "\""
BSLASH == "\\"

\* src.utils.constants.empty_escape_sequences: the blank characters, used as
\* a regex character class and as the argument of str.strip.
empty_escape_sequences == {NL, CR, TAB, SP}

\* \d of a Python regex, on the digits the model's texts use.
IsDigit(c) == c \in {"0", "1", "2", "3", "4", "5", "6", "7", "8", "9"}

Max(S) == CHOOSE x \in S : \A y \in S : y <= x

RECURSIVE Flatten(_)
Flatten(seqs) == IF Len(seqs) = 0 THEN <<>> ELSE Head(seqs) \o Flatten(Tail(seqs))

(***************************************************************************)
(* open(beancount_file).read(): a text-mode read with Python's default     *)
(* newline=None translates "\r\n" and a lone "\r" to "\n".                 *)
(***************************************************************************)
\* The positions of a text, in order.
Positions(text) == [i \in 1..Len(text) |-> i]

UniversalNewlines(raw) ==
    LET AfterCR(i) == i > 1 /\ raw[i - 1] = CR /\ raw[i] = NL
        kept == SelectSeq(Positions(raw), LAMBDA i : ~AfterCR(i))
    IN  [j \in 1..Len(kept) |-> IF raw[kept[j]] = CR THEN NL ELSE raw[kept[j]]]

(***************************************************************************)
(* str.strip(chars): drop the leading and trailing characters in chars.    *)
(***************************************************************************)
RECURSIVE LStrip(_, _)
LStrip(s, chars) ==
    IF s # <<>> /\ Head(s) \in chars THEN LStrip(Tail(s), chars) ELSE s

RECURSIVE RStrip(_, _)
RStrip(s, chars) ==
    IF s # <<>> /\ s[Len(s)] \in chars
    THEN RStrip(SubSeq(s, 1, Len(s) - 1), chars) ELSE s

strip(s, chars) == RStrip(LStrip(s, chars), chars)

(***************************************************************************)
(* empty_newline = '^[<empty_escape_sequences>]*$' under re.MULTILINE.     *)
(***************************************************************************)
\* '^' with re.MULTILINE: at the start of the text and after each newline.
AtLineStart(text, p) == p = 0 \/ text[p] = NL

\* '$' with re.MULTILINE: at the end of the text and before each newline.
AtLineEnd(text, p) == p = Len(text) \/ text[p + 1] = NL

\* The end of the longest run of blank characters starting at position p.
RECURSIVE RunEnd(_, _)
RunEnd(text, p) ==
    IF p < Len(text) /\ text[p + 1] \in empty_escape_sequences
    THEN RunEnd(text, p + 1) ELSE p

\* The end of the match of empty_newline at position p, or -1 when it does
\* not match there.  The class is greedy: the regex engine backtracks from
\* the longest run to the longest prefix of it that '$' accepts.
empty_newline(text, p) ==
    LET ends == {j \in p..RunEnd(text, p) : AtLineEnd(text, j)}
    IN  IF AtLineStart(text, p) /\ ends # {} THEN Max(ends) ELSE -1

(***************************************************************************)
(* re.split(empty_newline, ledger_content, flags=re.MULTILINE): the        *)
(* segments between the successive matches, scanning left to right.  After *)
(* a non-empty match the scan resumes at its end (an empty match there is  *)
(* accepted); after an empty match it resumes one character further.       *)
(***************************************************************************)
RECURSIVE SplitFrom(_, _, _)
SplitFrom(text, pos, last) ==
    LET matching == {p \in pos..Len(text) : empty_newline(text, p) # -1}
    IN  IF matching = {} THEN << SubSeq(text, last + 1, Len(text)) >>
        ELSE LET p == CHOOSE q \in matching : \A r \in matching : q <= r
                 e == empty_newline(text, p)
             IN  << SubSeq(text, last + 1, p) >>
                 \o SplitFrom(text, IF e = p THEN p + 1 ELSE e, e)

re_split(text) == SplitFrom(text, 0, 0)

(***************************************************************************)
(* transaction_regex = '^\n?\d{4}-\d{2}-\d{2} [\*|\!] ' under re.match.    *)
(***************************************************************************)
\* The character class [\*|\!]: inside a class '|' is a literal character.
MarkerClass == {"*", "|", "!"}

\* \d{4}-\d{2}-\d{2} <marker> followed by a space, from position k of s.
DateMarkerAt(s, k, markers) ==
    /\ Len(s) >= k + 13
    /\ \A i \in {1, 2, 3, 4, 6, 7, 9, 10} : IsDigit(s[k + i])
    /\ s[k + 5] = "-"
    /\ s[k + 8] = "-"
    /\ s[k + 11] = SP
    /\ s[k + 12] \in markers
    /\ s[k + 13] = SP

\* transaction_regex without its optional leading newline.
transaction_regex_without_newline(entry) == DateMarkerAt(entry, 0, MarkerClass)

transaction_regex(entry) ==
    \/ DateMarkerAt(entry, 0, MarkerClass)
    \/ Len(entry) >= 1 /\ entry[1] = NL /\ DateMarkerAt(entry, 1, MarkerClass)

\* The list comprehension of extract_beancount_entries on the segments of
\* one file: the segments transaction_regex matches, each stripped.
RECURSIVE StripAll(_)
StripAll(segs) ==
    IF segs = <<>> THEN <<>>
    ELSE <<strip(Head(segs), empty_escape_sequences)>> \o StripAll(Tail(segs))

RetainedEntries(segs) == StripAll(SelectSeq(segs, transaction_regex))

FileEntries(ledger_content) == RetainedEntries(re_split(ledger_content))

(***************************************************************************)
(* json.dumps({'Title': entry}, ensure_ascii=False) and json.loads.        *)
(***************************************************************************)
\* The escapes of json.dumps on the model's characters; with
\* ensure_ascii=False every other character is written as it is.
\* An escaping that leaves the backslash as it is.
EscapeCharKeepingBackslash(c) ==
    CASE c = QUOTE  -> <<BSLASH, QUOTE>>
      [] c = NL     -> <<BSLASH, "n">>
      [] c = CR     -> <<BSLASH, "r">>
      [] c = TAB    -> <<BSLASH, "t">>
      [] OTHER      -> <<c>>

EscapeChar(c) ==
    CASE c = QUOTE  -> <<BSLASH, QUOTE>>
      [] c = BSLASH -> <<BSLASH, BSLASH>>
      [] c = NL     -> <<BSLASH, "n">>
      [] c = CR     -> <<BSLASH, "r">>
      [] c = TAB    -> <<BSLASH, "t">>
      [] OTHER      -> <<c>>

RECURSIVE EscapeString(_)
EscapeString(s) ==
    IF s = <<>> THEN <<>> ELSE EscapeChar(Head(s)) \o EscapeString(Tail(s))

TitlePrefix == <<"{", QUOTE, "T", "i", "t", "l", "e", QUOTE, ":", SP, QUOTE>>

json_dumps(entry) == TitlePrefix \o EscapeString(entry) \o <<QUOTE, "}">>

\* The character a JSON escape \c stands for.
Unescape(c) ==
    CASE c = "n" -> NL
      [] c = "r" -> CR
      [] c = "t" -> TAB
      [] OTHER   -> c

\* The JSON string of s whose first character is s[k]: its value and the
\* index of its closing quote.  A raw control character, an unknown escape
\* or a missing closing quote is a decode error.
RECURSIVE JsonString(_, _, _)
JsonString(s, k, acc) ==
    IF k > Len(s) THEN [ok |-> FALSE, val |-> <<>>, end |-> 0]
    ELSE IF s[k] = QUOTE THEN [ok |-> TRUE, val |-> acc, end |-> k]
    ELSE IF s[k] = BSLASH
         THEN IF k + 1 <= Len(s) /\ s[k + 1] \in {QUOTE, BSLASH, "/", "n", "r", "t"}
              THEN JsonString(s, k + 2, Append(acc, Unescape(s[k + 1])))
              ELSE [ok |-> FALSE, val |-> <<>>, end |-> 0]
    ELSE IF s[k] \in {NL, CR, TAB} THEN [ok |-> FALSE, val |-> <<>>, end |-> 0]
    ELSE JsonString(s, k + 1, Append(acc, s[k]))

\* json.loads on a line holding one {"Title": "..."} object.
json_loads(line) ==
    IF Len(line) >= Len(TitlePrefix) /\ SubSeq(line, 1, Len(TitlePrefix)) = TitlePrefix
    THEN LET r == JsonString(line, Len(TitlePrefix) + 1, <<>>)
         IN  IF r.ok /\ r.end + 1 = Len(line) /\ line[Len(line)] = "}"
             THEN [ok |-> TRUE, Title |-> r.val]
             ELSE [ok |-> FALSE, Title |-> <<>>]
    ELSE [ok |-> FALSE, Title |-> <<>>]

\* convert_beancount_entries_to_jsonl: one JSON line per entry.
RECURSIVE convert_beancount_entries_to_jsonl(_)
convert_beancount_entries_to_jsonl(es) ==
    IF es = <<>> THEN <<>>
    ELSE json_dumps(Head(es)) \o <<NL>> \o convert_beancount_entries_to_jsonl(Tail(es))

\* str.split('\n'): the pieces between the newlines, one more than newlines.
SplitNewline(s) ==
    LET nl == SelectSeq(Positions(s), LAMBDA i : s[i] = NL)
    IN  [k \in 1..(Len(nl) + 1) |->
            SubSeq(s, IF k = 1 THEN 1 ELSE nl[k - 1] + 1,
                      IF k = Len(nl) + 1 THEN Len(s) ELSE nl[k] - 1)]

\* len(jsonl_data.split('\n')), the count dump_jsonl and compress_jsonl_data print.
jsonl_entries(text) == Len(SplitNewline(text))

\* Iterating a text file: the lines, each with its terminating newline.
FileLines(s) ==
    LET nl == SelectSeq(Positions(s), LAMBDA i : s[i] = NL)
        last == IF Len(nl) = 0 THEN 0 ELSE nl[Len(nl)]
        whole == [k \in 1..Len(nl) |->
                     SubSeq(s, IF k = 1 THEN 1 ELSE nl[k - 1] + 1, nl[k])]
    IN  IF last < Len(s) THEN Append(whole, SubSeq(s, last + 1, Len(s))) ELSE whole

\* gzip.open(path, 'wt').write(text), and reading it back with gzip.open(path, 'rt').
GzipCompress(text) == [format |-> "gzip", payload |-> text]
PlainFile(text) == [format |-> "text", payload |-> text]

(***************************************************************************)
(* Paths, the file system and Python values.                               *)
(***************************************************************************)
\* A path or a glob pattern: its directory ("." when relative), its name
\* ("*" in a pattern matches every name) and its extension.
Path(dir, name, ext) == <<dir, name, ext>>

Cwd == "/w"

\* src.utils.helpers.get_absolute_path: a relative path is resolved against
\* the working directory, an absolute one is returned as it is.
get_absolute_path(p) == IF p[1] = "." THEN Path(Cwd, p[2], p[3]) ELSE p

\* None, a list and a str as Python values.
PyNone == [type |-> "NoneType", items |-> <<>>]
PyList(items) == [type |-> "list", items |-> items]
PyStr(items) == [type |-> "str", items |-> items]

\* src.utils.helpers.is_none_or_empty: None, or a value of length 0.
is_none_or_empty(item) == item.type = "NoneType" \/ Len(item.items) = 0

\* Python's truth test of 'if beancount_files:' and 'if beancount_file_filter:'.
Truthy(item) == item.type # "NoneType" /\ Len(item.items) # 0

\* glob.glob(pattern): the existing files the pattern matches.
glob(pattern, files) ==
    {f \in files : /\ f[1] = pattern[1]
                   /\ pattern[2] \in {"*", f[2]}
                   /\ f[3] = pattern[3]}

\* pathlib.Path.suffix of the output file.
Suffix(path) == path[3]

VARIABLES
    pc,                     \* the position of the run in beancount_to_jsonl
    beancount_files,        \* argument: None or the list of input paths
    beancount_file_filter,  \* argument: None or the glob pattern
    output_file,            \* argument: the destination path
    verbose,                \* argument: the verbosity level
    fs,                     \* the existing input files and their raw content
    unreadable,             \* existing files whose open() raises
    undecodable,            \* existing files whose read() raises
    all_beancount_files,    \* the set get_beancount_files returned
    pending,                \* files the for loop has not visited yet
    order,                  \* files visited and closed, in iteration order
    beancount_file,         \* the loop variable, <<>> outside a 'with' block
    open_files,             \* input files currently open
    segments,               \* re.split's result for the file read last
    entries,                \* the list extract_beancount_entries builds
    jsonl_data,             \* the text convert_beancount_entries_to_jsonl returned
    output,                 \* the files written to output_file, in order
    io,                     \* the file-system calls made so far
    stdout,                 \* the messages printed so far
    exit_status,            \* "running", "exit0", "exit1" or "traceback"
    loaded                  \* the result of load_jsonl(output_file)

args == <<beancount_files, beancount_file_filter, output_file, verbose>>
disk == <<fs, unreadable, undecodable>>
loop == <<pending, order, beancount_file, open_files, segments, entries>>
vars == <<pc, args, disk, all_beancount_files, loop, jsonl_data, output, io,
          stdout, exit_status, loaded>>

NotLoaded == [status |-> "none", data |-> <<>>]

(***************************************************************************)
(* beancount_to_jsonl, lines 19-22: input validation.                      *)
(***************************************************************************)
\* The validation printing its message without leaving the run.
ValidateWithoutExit ==
    /\ pc = "start"
    /\ stdout' = IF is_none_or_empty(beancount_files) /\ is_none_or_empty(beancount_file_filter)
                 THEN Append(stdout, [msg |-> "At least one of beancount-files or beancount-file-filter is required to be specified", n |-> 0])
                 ELSE stdout
    /\ pc' = "get_files"
    /\ UNCHANGED <<args, disk, all_beancount_files, loop, jsonl_data, output, io,
                   exit_status, loaded>>

\* The validation requiring both sources, 'or' in place of 'and'.
ValidateRequiringBoth ==
    /\ pc = "start"
    /\ IF is_none_or_empty(beancount_files) \/ is_none_or_empty(beancount_file_filter)
       THEN /\ stdout' = Append(stdout, [msg |-> "At least one of beancount-files or beancount-file-filter is required to be specified", n |-> 0])
            /\ exit_status' = "exit1"
            /\ pc' = "exited"
       ELSE /\ pc' = "get_files"
            /\ UNCHANGED <<stdout, exit_status>>
    /\ UNCHANGED <<args, disk, all_beancount_files, loop, jsonl_data, output, io, loaded>>

Validate ==
    /\ pc = "start"
    /\ IF is_none_or_empty(beancount_files) /\ is_none_or_empty(beancount_file_filter)
       THEN /\ stdout' = Append(stdout, [msg |-> "At least one of beancount-files or beancount-file-filter is required to be specified", n |-> 0])
            /\ exit_status' = "exit1"
            /\ pc' = "exited"
       ELSE /\ pc' = "get_files"
            /\ UNCHANGED <<stdout, exit_status>>
    /\ UNCHANGED <<args, disk, all_beancount_files, loop, jsonl_data, output, io, loaded>>

(***************************************************************************)
(* get_beancount_files, lines 87-109.                                      *)
(***************************************************************************)
SeqRange(seq) == {seq[i] : i \in 1..Len(seq)}

absolute_beancount_files ==
    IF Truthy(beancount_files)
    THEN {get_absolute_path(f) : f \in SeqRange(beancount_files.items)}
    ELSE {}

filtered_beancount_files ==
    IF Truthy(beancount_file_filter)
    THEN glob(get_absolute_path(beancount_file_filter.items), DOMAIN fs)
    ELSE {}

files_with_non_beancount_extensions(files) ==
    {f \in files : f[3] # ".bean" /\ f[3] # ".beancount"}

get_beancount_files ==
    /\ pc = "get_files"
    /\ LET all == absolute_beancount_files \cup filtered_beancount_files
           warn == IF files_with_non_beancount_extensions(all) # {}
                   THEN <<[msg |-> "[Warning] There maybe non beancount files in the input set", n |-> Cardinality(files_with_non_beancount_extensions(all))]>>
                   ELSE <<>>
           info == IF verbose > 0
                   THEN <<[msg |-> "Processing files", n |-> Cardinality(all)]>>
                   ELSE <<>>
       IN  /\ all_beancount_files' = all
           /\ pending' = all
           /\ stdout' = stdout \o warn \o info
    /\ io' = IF Truthy(beancount_file_filter)
             THEN Append(io, [op |-> "glob", path |-> get_absolute_path(beancount_file_filter.items)])
             ELSE io
    /\ pc' = "extract"
    /\ UNCHANGED <<args, disk, order, beancount_file, open_files, segments, entries,
                   jsonl_data, output, exit_status, loaded>>

(***************************************************************************)
(* extract_beancount_entries, lines 112-128: one file after the other, in  *)
(* the iteration order of the set; an exception leaves the function and    *)
(* beancount_to_jsonl, and ends the run.                                   *)
(***************************************************************************)
\* 'with open(beancount_file) as f' on a file that can be opened.
OpenFile ==
    /\ pc = "extract"
    /\ \E f \in pending :
        /\ f \in DOMAIN fs /\ f \notin unreadable
        /\ beancount_file' = f
        /\ pending' = pending \ {f}
        /\ open_files' = open_files \cup {f}
        /\ io' = Append(io, [op |-> "open", path |-> f])
    /\ pc' = "read"
    /\ UNCHANGED <<args, disk, all_beancount_files, order, segments, entries,
                   jsonl_data, output, stdout, exit_status, loaded>>

\* A loop that skips a file it cannot open and goes on with the others.
OpenFailsSkipped ==
    /\ pc = "extract"
    /\ \E f \in pending :
        /\ f \notin DOMAIN fs \/ f \in unreadable
        /\ pending' = pending \ {f}
        /\ io' = Append(io, [op |-> "open failed", path |-> f])
    /\ UNCHANGED <<pc, args, disk, all_beancount_files, order, beancount_file, open_files,
                   segments, entries, jsonl_data, output, stdout, exit_status, loaded>>

\* open() raises: the file does not exist or may not be read.
OpenFails ==
    /\ pc = "extract"
    /\ \E f \in pending :
        /\ f \notin DOMAIN fs \/ f \in unreadable
        /\ pending' = pending \ {f}
        /\ io' = Append(io, [op |-> "open failed", path |-> f])
    /\ pc' = "aborted"
    /\ exit_status' = "traceback"
    /\ UNCHANGED <<args, disk, all_beancount_files, order, beancount_file, open_files,
                   segments, entries, jsonl_data, output, stdout, loaded>>

\* A read that puts the file's entries before those already collected.
ReadFilePrepending ==
    /\ pc = "read"
    /\ beancount_file \notin undecodable
    /\ LET ledger_content == UniversalNewlines(fs[beancount_file])
       IN  /\ segments' = re_split(ledger_content)
           /\ entries' = RetainedEntries(segments') \o entries
    /\ io' = Append(io, [op |-> "read", path |-> beancount_file])
    /\ pc' = "close"
    /\ UNCHANGED <<args, disk, all_beancount_files, pending, order, beancount_file,
                   open_files, jsonl_data, output, stdout, exit_status, loaded>>

\* ledger_content = f.read(); entries.extend([...]).
ReadFile ==
    /\ pc = "read"
    /\ beancount_file \notin undecodable
    /\ LET ledger_content == UniversalNewlines(fs[beancount_file])
       IN  /\ segments' = re_split(ledger_content)
           /\ entries' = entries \o RetainedEntries(segments')
    /\ io' = Append(io, [op |-> "read", path |-> beancount_file])
    /\ pc' = "close"
    /\ UNCHANGED <<args, disk, all_beancount_files, pending, order, beancount_file,
                   open_files, jsonl_data, output, stdout, exit_status, loaded>>

\* f.read() raises: the 'with' block closes the file and the exception goes on.
ReadFails ==
    /\ pc = "read"
    /\ beancount_file \in undecodable
    /\ open_files' = open_files \ {beancount_file}
    /\ io' = io \o <<[op |-> "read failed", path |-> beancount_file],
                     [op |-> "close", path |-> beancount_file]>>
    /\ beancount_file' = <<>>
    /\ pc' = "aborted"
    /\ exit_status' = "traceback"
    /\ UNCHANGED <<args, disk, all_beancount_files, pending, order, segments, entries,
                   jsonl_data, output, stdout, loaded>>

\* The end of the 'with' block closes the file.
CloseFile ==
    /\ pc = "close"
    /\ open_files' = open_files \ {beancount_file}
    /\ order' = Append(order, beancount_file)
    /\ io' = Append(io, [op |-> "close", path |-> beancount_file])
    /\ beancount_file' = <<>>
    /\ pc' = "extract"
    /\ UNCHANGED <<args, disk, all_beancount_files, pending, segments, entries,
                   jsonl_data, output, stdout, exit_status, loaded>>

\* The for loop is exhausted: return entries.
ExtractReturn ==
    /\ pc = "extract"
    /\ pending = {}
    /\ pc' = "convert"
    /\ UNCHANGED <<args, disk, all_beancount_files, loop, jsonl_data, output, io,
                   stdout, exit_status, loaded>>

(***************************************************************************)
(* convert_beancount_entries_to_jsonl, lines 131-142.                      *)
(***************************************************************************)
Convert ==
    /\ pc = "convert"
    /\ jsonl_data' = convert_beancount_entries_to_jsonl(entries)
    /\ stdout' = IF verbose > 0
                 THEN Append(stdout, [msg |-> "Converted to jsonl format", n |-> Len(entries)])
                 ELSE stdout
    /\ pc' = "persist"
    /\ UNCHANGED <<args, disk, all_beancount_files, loop, output, io, exit_status, loaded>>

(***************************************************************************)
(* dump_jsonl (lines 42-49), compress_jsonl_data (lines 52-58) and the     *)
(* choice between them by the destination's suffix (lines 33-39).          *)
(***************************************************************************)
dump_jsonl ==
    /\ output' = Append(output, PlainFile(jsonl_data))
    /\ io' = Append(io, [op |-> "write", path |-> get_absolute_path(output_file)])
    /\ stdout' = IF verbose > 0
                 THEN Append(stdout, [msg |-> "Wrote lines to jsonl", n |-> jsonl_entries(jsonl_data)])
                 ELSE stdout

compress_jsonl_data ==
    /\ output' = Append(output, GzipCompress(jsonl_data))
    /\ io' = Append(io, [op |-> "write", path |-> get_absolute_path(output_file)])
    /\ stdout' = IF verbose > 0
                 THEN Append(stdout, [msg |-> "Wrote lines to gzip compressed jsonl", n |-> jsonl_entries(jsonl_data)])
                 ELSE stdout

\* The choice of the writer with 'else' in place of 'elif'.
PersistElseDump ==
    /\ pc = "persist"
    /\ IF Suffix(output_file) = ".gz" THEN compress_jsonl_data ELSE dump_jsonl
    /\ pc' = "done"
    /\ exit_status' = "exit0"
    /\ UNCHANGED <<args, disk, all_beancount_files, loop, jsonl_data, loaded>>

Persist ==
    /\ pc = "persist"
    /\ IF Suffix(output_file) = ".gz" THEN compress_jsonl_data
       ELSE IF Suffix(output_file) = ".jsonl" THEN dump_jsonl
       ELSE UNCHANGED <<output, io, stdout>>
    /\ pc' = "done"
    /\ exit_status' = "exit0"
    /\ UNCHANGED <<args, disk, all_beancount_files, loop, jsonl_data, loaded>>

(***************************************************************************)
(* load_jsonl, lines 61-84, called on the destination by a consumer once   *)
(* the run has ended.                                                      *)
(***************************************************************************)
RECURSIVE LoadLines(_)
LoadLines(lines) ==
    IF lines = <<>> THEN <<>>
    ELSE <<json_loads(strip(Head(lines), empty_escape_sequences))>> \o LoadLines(Tail(lines))

load_jsonl(file, suffix) ==
    IF \/ suffix \notin {".gz", ".jsonl"}
       \/ suffix = ".gz" /\ file.format # "gzip"
    THEN [status |-> "error", data |-> <<>>]
    ELSE LET data == LoadLines(FileLines(UniversalNewlines(file.payload)))
         IN  IF \A i \in 1..Len(data) : data[i].ok
             THEN [status |-> "ok", data |-> [i \in 1..Len(data) |-> [Title |-> data[i].Title]]]
             ELSE [status |-> "error", data |-> <<>>]

LoadJsonl ==
    /\ pc = "done"
    /\ output # <<>>
    /\ loaded = NotLoaded
    /\ loaded' = load_jsonl(output[Len(output)], Suffix(output_file))
    /\ io' = Append(io, [op |-> "load", path |-> get_absolute_path(output_file)])
    /\ stdout' = IF verbose > 0 /\ loaded'.status = "ok"
                 THEN Append(stdout, [msg |-> "Loaded records", n |-> Len(loaded'.data)])
                 ELSE stdout
    /\ UNCHANGED <<pc, args, disk, all_beancount_files, loop, jsonl_data, output, exit_status>>

(***************************************************************************)
(* Initial states.                                                         *)
(***************************************************************************)
\* The largest number of paths in the explicit list of input files.
MaxListed == 2
\* The largest number of chunks a generated ledger file is made of.
MaxChunks == 5
\* The largest number of tokens the generated entry lists are made of.
MaxTokens == 6

SeqsUpTo(S, n) == UNION {[1..k -> S] : k \in 0..n}

HeadStar == <<"2", "0", "2", "0", "-", "0", "1", "-", "0", "1", SP, "*", SP>>
HeadBang == <<"2", "0", "2", "1", "-", "1", "2", "-", "3", "1", SP, "!", SP>>
HeadPipe == <<"2", "0", "2", "0", "-", "0", "1", "-", "0", "1", SP, "|", SP>>

\* Two transactions with a posting line each, a blank line between them.
LedgerTwo ==
    HeadStar \o <<"x", NL, SP, "a", NL, NL>> \o HeadBang \o <<"y", NL, SP, "b", NL>>
\* A comment block, then one transaction, with Windows line ends.
LedgerOne == <<";", "c", CR, NL, CR, NL>> \o HeadBang \o <<"z", CR, NL>>

\* An option directive only.
LedgerNone == <<"o", "p", "t", "i", "o", "n", NL>>

SampleLedgers == {LedgerTwo, LedgerOne, LedgerNone}

FileA == Path(Cwd, "a", ".bean")
FileNotes == Path(Cwd, "notes", ".txt")
ExistingFiles == {FileA, FileNotes}
ListablePaths == {Path(".", "a", ".bean"), FileNotes, Path(Cwd, "gone", ".bean")}
Filters == {PyNone, PyStr(<<>>), PyStr(Path(".", "*", ".bean")), PyStr(Path(Cwd, "*", ".org"))}
OutputFiles == {Path(".", "ledger", ".jsonl"), Path(".", "ledger.jsonl", ".gz"),
                Path(".", "ledger", ".txt")}

InitRun ==
    /\ all_beancount_files = {}
    /\ pending = {}
    /\ order = <<>>
    /\ beancount_file = <<>>
    /\ open_files = {}
    /\ segments = <<>>
    /\ entries = <<>>
    /\ jsonl_data = <<>>
    /\ output = <<>>
    /\ io = <<>>
    /\ stdout = <<>>
    /\ exit_status = "running"
    /\ loaded = NotLoaded

\* A call of beancount_to_jsonl: any arguments, two existing files, at most
\* one of them failing to open or to read.
Init ==
    /\ pc = "start"
    /\ beancount_files \in {PyNone} \cup {PyList(l) : l \in SeqsUpTo(ListablePaths, MaxListed)}
    /\ beancount_file_filter \in Filters
    /\ output_file \in OutputFiles
    /\ verbose \in {0, 1}
    /\ fs \in [ExistingFiles -> SampleLedgers]
    /\ \E faulty \in {{}} \cup {{f} : f \in ExistingFiles} :
          \/ unreadable = faulty /\ undecodable = {}
          \/ unreadable = {} /\ undecodable = faulty /\ faulty # {}
    /\ InitRun

Next ==
    \/ Validate
    \/ get_beancount_files
    \/ OpenFile
    \/ OpenFails
    \/ ReadFile
    \/ ReadFails
    \/ CloseFile
    \/ ExtractReturn
    \/ Convert
    \/ Persist
    \/ LoadJsonl

Spec == Init /\ [][Next]_vars

\* extract_beancount_entries on one readable file whose raw content is any
\* sequence of at most MaxChunks chunks.
Chunks == {HeadStar, HeadBang, HeadPipe, <<"x">>, <<SP>>, <<NL>>, <<CR>>}

InitExtract ==
    /\ pc = "extract"
    /\ beancount_files = PyList(<<FileA>>)
    /\ beancount_file_filter = PyNone
    /\ output_file = Path(".", "ledger", ".jsonl")
    /\ verbose = 0
    /\ \E cs \in SeqsUpTo(Chunks, MaxChunks) : fs = [f \in {FileA} |-> Flatten(cs)]
    /\ unreadable = {}
    /\ undecodable = {}
    /\ all_beancount_files = {FileA}
    /\ pending = {FileA}
    /\ order = <<>>
    /\ beancount_file = <<>>
    /\ open_files = {}
    /\ segments = <<>>
    /\ entries = <<>>
    /\ jsonl_data = <<>>
    /\ output = <<>>
    /\ io = <<>>
    /\ stdout = <<>>
    /\ exit_status = "running"
    /\ loaded = NotLoaded

NextExtract ==
    \/ OpenFile
    \/ ReadFile
    \/ CloseFile
    \/ ExtractReturn

SpecExtract == InitExtract /\ [][NextExtract]_vars

\* convert_beancount_entries_to_jsonl, a writer and load_jsonl on any list of
\* entries: the tokens are the entries' characters, each entry ended by END.
EntryAlphabet == {QUOTE, BSLASH, NL, "n"}
END == "END"

RECURSIVE EntriesOf(_, _)
EntriesOf(tokens, cur) ==
    IF Len(tokens) = 0 THEN <<>>
    ELSE IF Head(tokens) = END THEN <<cur>> \o EntriesOf(Tail(tokens), <<>>)
    ELSE EntriesOf(Tail(tokens), Append(cur, Head(tokens)))

InitRoundTrip ==
    /\ pc = "convert"
    /\ beancount_files = PyList(<<FileA>>)
    /\ beancount_file_filter = PyNone
    /\ output_file \in {Path(".", "ledger", ".jsonl"), Path(".", "ledger.jsonl", ".gz")}
    /\ verbose \in {0, 1}
    /\ fs = [f \in {FileA} |-> <<>>]
    /\ unreadable = {}
    /\ undecodable = {}
    /\ all_beancount_files = {FileA}
    /\ pending = {}
    /\ order = <<FileA>>
    /\ beancount_file = <<>>
    /\ open_files = {}
    /\ segments = <<>>
    /\ \E ts \in SeqsUpTo(EntryAlphabet \cup {END}, MaxTokens) :
          /\ (IF Len(ts) = 0 THEN TRUE ELSE ts[Len(ts)] = END)
          /\ entries = EntriesOf(ts, <<>>)
    /\ jsonl_data = <<>>
    /\ output = <<>>
    /\ io = <<>>
    /\ stdout = <<>>
    /\ exit_status = "running"
    /\ loaded = NotLoaded

NextRoundTrip ==
    \/ Convert
    \/ Persist
    \/ LoadJsonl

SpecRoundTrip == InitRoundTrip /\ [][NextRoundTrip]_vars

(***************************************************************************)
(* Definitions the properties share.                                       *)
(***************************************************************************)
\* The transaction markers the specification names.
TransactionMarkers == {"*", "!"}

\* A line (with its newline) of blank characters only.
IsBlankLine(line) == \A i \in 1..Len(line) : line[i] \in empty_escape_sequences

\* The blocks of a text: the maximal runs of lines that are not blank.
RECURSIVE BlocksOf(_, _)
BlocksOf(lines, cur) ==
    IF lines = <<>> THEN (IF cur = <<>> THEN <<>> ELSE <<cur>>)
    ELSE IF IsBlankLine(Head(lines))
         THEN (IF cur = <<>> THEN <<>> ELSE <<cur>>) \o BlocksOf(Tail(lines), <<>>)
         ELSE BlocksOf(Tail(lines), cur \o Head(lines))

Blocks(text) == BlocksOf(FileLines(text), <<>>)

\* Every block of the text begins with 'YYYY-MM-DD * ' or 'YYYY-MM-DD ! '.
MadeOfTransactionBlocks(text) ==
    LET blocks == Blocks(text)
    IN  \A i \in 1..Len(blocks) : DateMarkerAt(blocks[i], 0, TransactionMarkers)

\* The entries occur in the text one after the other, from position from on.
RECURSIVE InSourceOrder(_, _, _)
InSourceOrder(text, es, from) ==
    IF es = <<>> THEN TRUE
    ELSE \E p \in from..(Len(text) - Len(Head(es))) :
            /\ SubSeq(text, p + 1, p + Len(Head(es))) = Head(es)
            /\ InSourceOrder(text, Tail(es), p + Len(Head(es)))

\* The files whose entries the list holds, in iteration order.
Visited == IF pc = "close" THEN Append(order, beancount_file) ELSE order

RECURSIVE EntriesOfFiles(_)
EntriesOfFiles(files) ==
    IF files = <<>> THEN <<>>
    ELSE FileEntries(UniversalNewlines(fs[Head(files)])) \o EntriesOfFiles(Tail(files))

BothAbsent ==
    /\ beancount_files \in {PyNone, PyList(<<>>)}
    /\ beancount_file_filter \in {PyNone, PyStr(<<>>)}

\* No input file is resolvable: both sources absent or empty, or the list and
\* the filter together resolve to no file.
NoInputResolvable ==
    BothAbsent \/ absolute_beancount_files \cup filtered_beancount_files = {}

\* The stripped content of a segment begins with the transaction-start
\* pattern as the specification states it.
StrippedSegmentMatches(segment) ==
    DateMarkerAt(strip(segment, empty_escape_sequences), 0, TransactionMarkers)

Required(m) == m.msg = "At least one of beancount-files or beancount-file-filter is required to be specified"
ErrorReported == \E i \in 1..Len(stdout) : Required(stdout[i])

WriteCount == Cardinality({i \in 1..Len(io) : io[i].op = "write"})
Failed == \E i \in 1..Len(io) : io[i].op \in {"open failed", "read failed"}

\* The stage of a file-system call: locate, extract, emit, then the consumer.
Stage(op) ==
    CASE op = "glob" -> 0
      [] op \in {"open", "open failed", "read", "read failed", "close"} -> 1
      [] op = "write" -> 2
      [] OTHER -> 3

(***************************************************************************)
(* C1: every string extract_beancount_entries returns starts with a date   *)
(* YYYY-MM-DD, a space, the marker '*' or '!' and no other, then a space.  *)
(* This is the claim as stated; the code does not satisfy it.              *)
(***************************************************************************)
C1_EntriesStartWithDateMarker ==
    \A i \in 1..Len(entries) : DateMarkerAt(entries[i], 0, TransactionMarkers)

(***************************************************************************)
(* C2, as stated: for a file made of transaction blocks separated by blank *)
(* lines, the entries are the file's blocks, each stripped, with their     *)
(* internal lines unchanged.                                               *)
(***************************************************************************)
C2_EntriesAreRawBlocks ==
    pc = "convert" =>
        (MadeOfTransactionBlocks(fs[FileA]) => entries = StripAll(Blocks(fs[FileA])))

(***************************************************************************)
(* C2, amended: for a file whose text as read (each "\r\n" and each lone   *)
(* "\r" read as "\n") is made of k >= 0 transaction blocks separated by    *)
(* blank lines, extract_beancount_entries returns exactly k entries, the   *)
(* i-th being the i-th block of the text as read, stripped.                *)
(***************************************************************************)
C2_EntriesAreBlocksAsRead ==
    pc = "convert" =>
        LET text == UniversalNewlines(fs[FileA])
        IN  MadeOfTransactionBlocks(text)
                => /\ Len(entries) = Len(Blocks(text))
                   /\ entries = StripAll(Blocks(text))

C2_Witness ==
    /\ pc = "convert"
    /\ MadeOfTransactionBlocks(UniversalNewlines(fs[FileA]))
    /\ Len(entries) = 2
    /\ entries[1] # entries[2]
    /\ \E i \in 1..Len(fs[FileA]) : fs[FileA][i] = CR

(***************************************************************************)
(* C3: a segment of the blank-line split is retained as an entry if and    *)
(* only if its content, stripped, begins with date, space, '*' or '!' and  *)
(* space.  This is the claim as stated; the code does not satisfy it.      *)
(***************************************************************************)
C3_RetainedIffStrippedMatches ==
    entries = StripAll(SelectSeq(segments, StrippedSegmentMatches))

(***************************************************************************)
(* C4: the entries are the concatenation, in the order the files are       *)
(* iterated, of each file's own entries, and each file's entries occur in  *)
(* its text in the order of their positions.                               *)
(***************************************************************************)
C4_FileByFileInOrder ==
    /\ entries = EntriesOfFiles(Visited)
    /\ pc = "close" =>
          LET text == UniversalNewlines(fs[beancount_file])
          IN  /\ SubSeq(entries, Len(entries) - Len(FileEntries(text)) + 1, Len(entries))
                    = FileEntries(text)
              /\ InSourceOrder(text, FileEntries(text), 0)

C4_Witness ==
    /\ pc = "done"
    /\ Len(order) = 2
    /\ fs[order[1]] = LedgerOne
    /\ fs[order[2]] = LedgerTwo
    /\ Len(entries) = 3

(***************************************************************************)
(* C5: writing convert_beancount_entries_to_jsonl(entries) to a .jsonl     *)
(* path and reading it back with load_jsonl yields one object per entry,   *)
(* in order, whose "Title" is the entry.                                   *)
(***************************************************************************)
C5_RoundTrip ==
    (loaded # NotLoaded /\ Suffix(output_file) = ".jsonl")
        => /\ loaded.status = "ok"
           /\ Len(loaded.data) = Len(entries)
           /\ \A i \in 1..Len(entries) : loaded.data[i].Title = entries[i]

C5_Witness ==
    /\ loaded.status = "ok"
    /\ Suffix(output_file) = ".jsonl"
    /\ Len(entries) = 2
    /\ entries[1] = <<BSLASH, "n">>
    /\ entries[2] = <<NL, QUOTE>>

C7_MissingInputExitsBeforeIO ==
    BothAbsent =>
        /\ pc \in {"start", "exited"}
        /\ pc = "exited" => exit_status = "exit1" /\ ErrorReported
        /\ io = <<>>
        /\ open_files = {}
        /\ output = <<>>

C7_Witness ==
    /\ pc = "exited"
    /\ beancount_files = PyList(<<>>)
    /\ beancount_file_filter = PyStr(<<>>)
    /\ exit_status = "exit1"

(***************************************************************************)
(* C8, as stated: whenever no input file is resolvable (both sources       *)
(* absent, or the list and the filter together resolve to no file), the    *)
(* run reports a configuration error and ends with a non-zero status.      *)
(***************************************************************************)
C8_NoInputIsAnError ==
    (NoInputResolvable /\ exit_status # "running")
        => exit_status = "exit1" /\ ErrorReported

(***************************************************************************)
(* C8, amended: the run reports the configuration error and ends with a    *)
(* non-zero status exactly when both sources are absent or empty; when a   *)
(* supplied source resolves to no file the run reports no error, extracts  *)
(* no entry and completes with status 0.                                   *)
(***************************************************************************)
C8_ErrorIffBothAbsent ==
    /\ (BothAbsent /\ pc # "start")
          => pc = "exited" /\ exit_status = "exit1" /\ ErrorReported
    /\ ~BothAbsent => pc # "exited" /\ exit_status # "exit1" /\ ~ErrorReported
    /\ (~BothAbsent /\ exit_status # "running" /\ all_beancount_files = {})
          => pc = "done" /\ exit_status = "exit0" /\ entries = <<>>

C8_Witness ==
    /\ pc = "done"
    /\ ~BothAbsent
    /\ Truthy(beancount_file_filter)
    /\ all_beancount_files = {}
    /\ exit_status = "exit0"

(***************************************************************************)
(* C9: with verbose > 0 the line count dump_jsonl and compress_jsonl_data  *)
(* report equals the number of JSONL lines written, one per entry.  This   *)
(* is the claim as stated; the code does not satisfy it.                   *)
(***************************************************************************)
C9_ReportedCountIsLinesWritten ==
    \A i \in 1..Len(stdout) :
        stdout[i].msg \in {"Wrote lines to jsonl", "Wrote lines to gzip compressed jsonl"}
            => /\ stdout[i].n = Len(FileLines(output[Len(output)].payload))
               /\ stdout[i].n = Len(entries)

(***************************************************************************)
(* C10: the stages are strictly ordered: at most one input file is open at *)
(* any time, each file is opened, read and closed before the next, the     *)
(* destination is written only after every resolved file was read and      *)
(* closed, and once an input file failed the run is aborted with the       *)
(* destination never written.                                              *)
(***************************************************************************)
C10_StagesStrictlyOrdered ==
    /\ Cardinality(open_files) <= 1
    /\ \A i, j \in 1..Len(io) : i < j => Stage(io[i].op) <= Stage(io[j].op)
    /\ \A i \in 1..(Len(io) - 1) :
          /\ io[i].op = "open"
                => io[i + 1].op \in {"read", "read failed"} /\ io[i + 1].path = io[i].path
          /\ io[i].op \in {"read", "read failed"}
                => io[i + 1].op = "close" /\ io[i + 1].path = io[i].path
    /\ (WriteCount > 0 \/ output # <<>>)
          => /\ pending = {}
             /\ open_files = {}
             /\ SeqRange(order) = all_beancount_files
             /\ ~Failed
    /\ Failed
          => /\ pc = "aborted"
             /\ exit_status = "traceback"
             /\ output = <<>>
             /\ WriteCount = 0

C10_Witness ==
    /\ pc = "aborted"
    /\ Len(order) = 1
    /\ Failed
    /\ output = <<>>

====
